---- MODULE Spec2Model ----
(***************************************************************************)
(* Model of esp32_flash_encrypt.py: main() as a sequential process over a  *)
(* file system and three external tools.  The state is the parsed flags,   *)
(* the set of paths that exist, the position in main(), the commands       *)
(* handed to subprocess.run, and what the existence checks reported.       *)
(***************************************************************************)
EXTENDS Integers, Sequences, FiniteSets, TLC

VARIABLES
    args,        \* parsed command line: the four store_true flags
    fs,          \* set of paths that currently exist
    pc,          \* position in main() (source line of the next statement)
    invoked,     \* commands passed to subprocess.run in this run, in order
    reported,    \* check_file_exists calls of this run: <<path, found>>
    files_exist, \* local of main(), lines 155-160
    task,        \* index of the encryption_tasks loop, line 242
    encChecked,  \* os.path.exists results of the loop at 271-274: <<path, found>>
    exitCode,    \* exit status of the run, -1 while it is running
    runs         \* number of runs of the script started so far

vars == <<args, fs, pc, invoked, reported, files_exist, task, encChecked,
          exitCode, runs>>

\* How many times the script is run in succession on the same file system.
MaxRuns == 2

-----------------------------------------------------------------------------
\* Paths (lines 115-116, 133-139)

build_dir == "build_dir"
key_file == "key_file"
bootloader_bin == "build_dir/bootloader.bin"
partitions_bin == "build_dir/partitions.bin"
firmware_bin == "build_dir/firmware.bin"
encrypted_bootloader == "encrypted_bootloader.bin"
encrypted_partitions == "encrypted_partitions.bin"
encrypted_firmware == "encrypted_firmware.bin"

source_files == {bootloader_bin, partitions_bin, firmware_bin}

\* args.port and args.chip are opaque strings to the script.
port == "PORT"
chip == "CHIP"

sys_executable == "python"

Args == [development : BOOLEAN, skip_efuse : BOOLEAN,
         encrypt_only : BOOLEAN, flash_only : BOOLEAN]

-----------------------------------------------------------------------------
\* fix_esp_command (lines 15-35).  Every command main() builds starts with a
\* key of esp_tools, so the platform branch at line 32 only sees other input.

esp_tools == [t \in {"espsecure.py", "espefuse.py", "esptool.py"} |->
                 CASE t = "espsecure.py" -> "espsecure"
                   [] t = "espefuse.py" -> "espefuse"
                   [] t = "esptool.py" -> "esptool"]

fix_esp_command(cmd) ==
    IF cmd = <<>> THEN cmd
    ELSE IF cmd[1] \in DOMAIN esp_tools
         THEN <<sys_executable, "-m", esp_tools[cmd[1]]>> \o Tail(cmd)
         ELSE cmd

\* run_command (lines 38-64): what subprocess.run can do with the command.
\* Only "ok" makes run_command return True.
RunOutcomes == {"ok", "CalledProcessError", "FileNotFoundError"}

\* The file system after an external tool ran with output path out: the
\* tool's behaviour is outside the script, the file may or may not be there;
\* a tool that could not be started changes nothing.
AfterTool(outcome, out) ==
    IF outcome = "FileNotFoundError" THEN {fs}
    ELSE {fs \cup {out}, fs \ {out}}

-----------------------------------------------------------------------------
\* The commands main() builds

generate_key_cmd ==
    <<"espsecure.py", "generate_flash_encryption_key", key_file>>

burn_key_cmd ==
    <<"espefuse.py", "--port", port, "--do-not-confirm", "burn_key",
      "flash_encryption", key_file>>

crypt_cnt_swapped(development) == IF development THEN "127" ELSE "1"

crypt_cnt(development) == IF development THEN "1" ELSE "127"

burn_crypt_cnt_cmd(development) ==
    <<"espefuse.py", "--port", port, "--do-not-confirm", "--chip", chip,
      "burn_efuse", "FLASH_CRYPT_CNT", crypt_cnt(development)>>

burn_crypt_config_cmd ==
    <<"espefuse.py", "--port", port, "--do-not-confirm", "--chip", chip,
      "burn_efuse", "FLASH_CRYPT_CONFIG", "0xF">>

write_protect_cmd ==
    <<"espefuse.py", "--port", port, "--do-not-confirm",
      "write_protect_efuse", "DIS_CACHE">>

encryption_tasks_reordered ==
    << <<partitions_bin, encrypted_partitions, "0x8000">>,
       <<bootloader_bin, encrypted_bootloader, "0x1000">>,
       <<firmware_bin, encrypted_firmware, "0x10000">> >>

encryption_tasks ==
    << <<bootloader_bin, encrypted_bootloader, "0x1000">>,
       <<partitions_bin, encrypted_partitions, "0x8000">>,
       <<firmware_bin, encrypted_firmware, "0x10000">> >>

encrypt_cmd(t) ==
    <<"espsecure.py", "encrypt_flash_data", "--keyfile", key_file,
      "--address", t[3], "--output", t[2], t[1]>>

encrypted_files ==
    <<encrypted_bootloader, encrypted_partitions, encrypted_firmware>>

flash_cmd ==
    <<"esptool.py", "--chip", chip, "--port", port, "write_flash",
      "0x1000", encrypted_bootloader, "0x8000", encrypted_partitions,
      "0x10000", encrypted_firmware>>

-----------------------------------------------------------------------------
\* The conditions of main()'s stages

PrepareStage_always == TRUE

PrepareStage == ~args.flash_only

EfuseStage_ignores_skip == ~args.encrypt_only /\ ~args.flash_only

EfuseStage == ~args.skip_efuse /\ ~args.encrypt_only /\ ~args.flash_only

WriteProtectStage == ~args.development

EncryptStage == ~args.flash_only

FlashStage_always == TRUE

FlashStage == ~args.encrypt_only

-----------------------------------------------------------------------------
\* A realistic file system: a file inside the build directory exists only if
\* the build directory does.
FileSystems ==
    {f \in SUBSET ({build_dir, key_file} \cup source_files
                     \cup {encrypted_files[k] : k \in 1..3}) :
        (f \cap source_files # {}) => build_dir \in f}

Init ==
    /\ args \in Args
    /\ fs \in FileSystems
    /\ pc = "L127"
    /\ invoked = <<>>
    /\ reported = <<>>
    /\ files_exist = TRUE
    /\ task = 1
    /\ encChecked = <<>>
    /\ exitCode = -1
    /\ runs = 1

\* sys.exit(code), and falling off the end of main()
Exit(code) ==
    /\ pc' = "done"
    /\ exitCode' = code

\* run_command(cmd, ...): the command as subprocess.run receives it
Run(cmd) == invoked' = Append(invoked, fix_esp_command(cmd))

\* check_file_exists (lines 67-74)
check_file_exists(filepath) == filepath \in fs

-----------------------------------------------------------------------------
\* main() (lines 77-337), one action per step

\* lines 126-130: the build directory check
CheckBuildDir ==
    /\ pc = "L127"
    /\ IF build_dir \notin fs
       THEN Exit(1)
       ELSE pc' = "L141" /\ UNCHANGED exitCode
    /\ UNCHANGED <<args, fs, invoked, reported, files_exist, task, encChecked, runs>>

\* lines 141-151: step 1, the key is generated unless the key file exists
GenerateKey ==
    /\ pc = "L141"
    /\ IF ~PrepareStage
       THEN pc' = "L164" /\ UNCHANGED <<fs, invoked, exitCode>>
       ELSE IF key_file \notin fs
            THEN \E outcome \in RunOutcomes :
                    /\ Run(generate_key_cmd)
                    /\ fs' \in AfterTool(outcome, key_file)
                    /\ IF outcome = "ok"
                       THEN pc' = "L155" /\ UNCHANGED exitCode
                       ELSE Exit(1)
            ELSE pc' = "L155" /\ UNCHANGED <<fs, invoked, exitCode>>
    /\ UNCHANGED <<args, reported, files_exist, task, encChecked, runs>>

\* line 155
InitFilesExist ==
    /\ pc = "L155"
    /\ files_exist' = TRUE
    /\ pc' = "L156"
    /\ UNCHANGED <<args, fs, invoked, reported, task, encChecked, exitCode, runs>>

\* A check that stops at the first missing file instead of checking them all.
CheckSource_shortcircuit(at, filepath, next) ==
    /\ pc = at
    /\ IF files_exist
       THEN /\ files_exist' = check_file_exists(filepath)
            /\ reported' = Append(reported, <<filepath, check_file_exists(filepath)>>)
       ELSE UNCHANGED <<files_exist, reported>>
    /\ pc' = next
    /\ UNCHANGED <<args, fs, invoked, task, encChecked, exitCode, runs>>

\* lines 156-158: files_exist &= check_file_exists(...); &= evaluates its
\* right-hand side whatever files_exist is
CheckSource(at, filepath, next) ==
    /\ pc = at
    /\ files_exist' = (files_exist /\ check_file_exists(filepath))
    /\ reported' = Append(reported, <<filepath, check_file_exists(filepath)>>)
    /\ pc' = next
    /\ UNCHANGED <<args, fs, invoked, task, encChecked, exitCode, runs>>

CheckBootloader == CheckSource("L156", bootloader_bin, "L157")
CheckPartitions == CheckSource("L157", partitions_bin, "L158")
CheckFirmware == CheckSource("L158", firmware_bin, "L160")

\* lines 160-162
RequireSourceFiles ==
    /\ pc = "L160"
    /\ IF ~files_exist
       THEN Exit(1)
       ELSE pc' = "L164" /\ UNCHANGED exitCode
    /\ UNCHANGED <<args, fs, invoked, reported, files_exist, task, encChecked, runs>>

\* lines 164-179: step 2; a failure is reported and the run continues
BurnKey ==
    /\ pc = "L164"
    /\ IF EfuseStage
       THEN \E outcome \in RunOutcomes :
               /\ Run(burn_key_cmd)
               /\ pc' = "L185"
       ELSE pc' = "L234" /\ UNCHANGED invoked
    /\ UNCHANGED <<args, fs, reported, files_exist, task, encChecked, exitCode, runs>>

\* lines 184-201
BurnCryptCnt ==
    /\ pc = "L185"
    /\ \E outcome \in RunOutcomes :
          /\ Run(burn_crypt_cnt_cmd(args.development))
          /\ pc' = "L203"
    /\ UNCHANGED <<args, fs, reported, files_exist, task, encChecked, exitCode, runs>>

\* lines 203-217
BurnCryptConfig ==
    /\ pc = "L203"
    /\ \E outcome \in RunOutcomes :
          /\ Run(burn_crypt_config_cmd)
          /\ pc' = "L219"
    /\ UNCHANGED <<args, fs, reported, files_exist, task, encChecked, exitCode, runs>>

\* lines 219-232: the result of run_command is not looked at
WriteProtect ==
    /\ pc = "L219"
    /\ IF WriteProtectStage
       THEN \E outcome \in RunOutcomes : Run(write_protect_cmd)
       ELSE UNCHANGED invoked
    /\ pc' = "L234"
    /\ UNCHANGED <<args, fs, reported, files_exist, task, encChecked, exitCode, runs>>

\* lines 234-242: entering the encryption loop
BeginEncrypt ==
    /\ pc = "L234"
    /\ IF EncryptStage
       THEN pc' = "L242" /\ task' = 1
       ELSE pc' = "L261" /\ UNCHANGED task
    /\ UNCHANGED <<args, fs, invoked, reported, files_exist, encChecked, exitCode, runs>>

\* lines 242-259: one iteration of the loop over encryption_tasks
EncryptTask ==
    /\ pc = "L242"
    /\ \E outcome \in RunOutcomes :
          /\ Run(encrypt_cmd(encryption_tasks[task]))
          /\ fs' \in AfterTool(outcome, encryption_tasks[task][2])
          /\ IF outcome = "ok"
             THEN /\ task' = task + 1
                  /\ pc' = IF task = Len(encryption_tasks) THEN "L261" ELSE "L242"
                  /\ UNCHANGED exitCode
             ELSE Exit(1) /\ UNCHANGED task
    /\ UNCHANGED <<args, reported, files_exist, encChecked, runs>>

\* lines 261-270
BeginFlash ==
    /\ pc = "L261"
    /\ IF FlashStage
       THEN pc' = "L271" /\ encChecked' = <<>>
       ELSE pc' = "L295" /\ UNCHANGED encChecked
    /\ UNCHANGED <<args, fs, invoked, reported, files_exist, task, exitCode, runs>>

\* lines 271-274: one iteration of the loop over encrypted_files
CheckEncrypted ==
    /\ pc = "L271"
    /\ LET f == encrypted_files[Len(encChecked) + 1] IN
          /\ encChecked' = Append(encChecked, <<f, f \in fs>>)
          /\ IF f \notin fs
             THEN Exit(1)
             ELSE /\ pc' = IF Len(encChecked) + 1 = Len(encrypted_files)
                           THEN "L291" ELSE "L271"
                  /\ UNCHANGED exitCode
    /\ UNCHANGED <<args, fs, invoked, reported, files_exist, task, runs>>

\* lines 276-293
Flash ==
    /\ pc = "L291"
    /\ \E outcome \in RunOutcomes :
          /\ Run(flash_cmd)
          /\ IF outcome = "ok"
             THEN pc' = "L295" /\ UNCHANGED exitCode
             ELSE Exit(1)
    /\ UNCHANGED <<args, fs, reported, files_exist, task, encChecked, runs>>

\* What input() can give: a line, or EOFError on a closed stdin, which
\* nothing catches.
Answers == {"y", "n", "EOFError"}
Confirmations == {"DELETE", "no", "EOFError"}

\* lines 295-317: the success report and the first prompt
Cleanup ==
    /\ pc = "L295"
    /\ \E cleanup \in Answers :
          CASE cleanup = "EOFError" -> Exit(1) /\ UNCHANGED fs
            [] cleanup = "y" ->
                 /\ fs' = fs \ {encrypted_files[k] : k \in 1..Len(encrypted_files)}
                 /\ pc' = "L319" /\ UNCHANGED exitCode
            [] OTHER -> pc' = "L319" /\ UNCHANGED <<fs, exitCode>>
    /\ UNCHANGED <<args, invoked, reported, files_exist, task, encChecked, runs>>

\* lines 319-337: the key prompt, then main() returns
KeyCleanup ==
    /\ pc = "L319"
    /\ IF key_file \notin fs
       THEN Exit(0) /\ UNCHANGED fs
       ELSE \E key_cleanup \in Answers, confirm \in Confirmations :
              CASE key_cleanup = "EOFError" -> Exit(1) /\ UNCHANGED fs
                [] key_cleanup = "y" /\ confirm = "EOFError" -> Exit(1) /\ UNCHANGED fs
                [] key_cleanup = "y" /\ confirm = "DELETE" ->
                     Exit(0) /\ fs' = fs \ {key_file}
                [] OTHER -> Exit(0) /\ UNCHANGED fs
    /\ UNCHANGED <<args, invoked, reported, files_exist, task, encChecked, runs>>

\* The script is started again on the file system the last run left.
NextRun ==
    /\ pc = "done"
    /\ runs < MaxRuns
    /\ runs' = runs + 1
    /\ args' \in Args
    /\ pc' = "L127"
    /\ invoked' = <<>>
    /\ reported' = <<>>
    /\ files_exist' = TRUE
    /\ task' = 1
    /\ encChecked' = <<>>
    /\ exitCode' = -1
    /\ UNCHANGED fs

Next ==
    \/ CheckBuildDir
    \/ GenerateKey
    \/ InitFilesExist
    \/ CheckBootloader
    \/ CheckPartitions
    \/ CheckFirmware
    \/ RequireSourceFiles
    \/ BurnKey
    \/ BurnCryptCnt
    \/ BurnCryptConfig
    \/ WriteProtect
    \/ BeginEncrypt
    \/ EncryptTask
    \/ BeginFlash
    \/ CheckEncrypted
    \/ Flash
    \/ Cleanup
    \/ KeyCleanup
    \/ NextRun

Spec == Init /\ [][Next]_vars

TypeOK ==
    /\ args \in Args
    /\ fs \in FileSystems
    /\ exitCode \in {-1, 0, 1}
    /\ runs \in 1..MaxRuns
    /\ task \in 1..(Len(encryption_tasks) + 1)
    /\ Len(invoked) <= 9
    /\ Len(reported) <= 3
    /\ Len(encChecked) <= 3

-----------------------------------------------------------------------------
\* Reading the commands that were run

\* The tool a command starts: the module name after "python -m"
Tool(c) == IF Len(c) >= 3 /\ c[1] = sys_executable /\ c[2] = "-m" THEN c[3] ELSE "?"

Mentions(c, word) == \E k \in DOMAIN c : c[k] = word

\* Which entry of the fixed list a command is, "?" if it is none of them
Label(c) ==
    CASE Tool(c) = "espsecure" /\ Mentions(c, "generate_flash_encryption_key") ->
           "generate_flash_encryption_key"
      [] Tool(c) = "espefuse" /\ Mentions(c, "burn_key") -> "burn_key"
      [] Tool(c) = "espefuse" /\ Mentions(c, "burn_efuse")
           /\ Mentions(c, "FLASH_CRYPT_CNT") -> "burn_efuse FLASH_CRYPT_CNT"
      [] Tool(c) = "espefuse" /\ Mentions(c, "burn_efuse")
           /\ Mentions(c, "FLASH_CRYPT_CONFIG") -> "burn_efuse FLASH_CRYPT_CONFIG"
      [] Tool(c) = "espefuse" /\ Mentions(c, "write_protect_efuse")
           /\ Mentions(c, "DIS_CACHE") -> "write_protect_efuse DIS_CACHE"
      [] Tool(c) = "espsecure" /\ Mentions(c, "encrypt_flash_data")
           /\ c[Len(c)] = bootloader_bin -> "encrypt bootloader"
      [] Tool(c) = "espsecure" /\ Mentions(c, "encrypt_flash_data")
           /\ c[Len(c)] = partitions_bin -> "encrypt partition table"
      [] Tool(c) = "espsecure" /\ Mentions(c, "encrypt_flash_data")
           /\ c[Len(c)] = firmware_bin -> "encrypt firmware"
      [] Tool(c) = "esptool" /\ Mentions(c, "write_flash") -> "write_flash"
      [] OTHER -> "?"

FixedList ==
    <<"generate_flash_encryption_key", "burn_key", "burn_efuse FLASH_CRYPT_CNT",
      "burn_efuse FLASH_CRYPT_CONFIG", "write_protect_efuse DIS_CACHE",
      "encrypt bootloader", "encrypt partition table", "encrypt firmware",
      "write_flash">>

EfuseLabels ==
    {"burn_key", "burn_efuse FLASH_CRYPT_CNT", "burn_efuse FLASH_CRYPT_CONFIG",
     "write_protect_efuse DIS_CACHE"}

EncryptLabels == {"encrypt bootloader", "encrypt partition table", "encrypt firmware"}

\* Position of a label in the fixed list, 0 if it is not in it
Position(l) ==
    IF \E k \in DOMAIN FixedList : FixedList[k] = l
    THEN CHOOSE k \in DOMAIN FixedList : FixedList[k] = l
    ELSE 0

Labels == {Label(invoked[i]) : i \in DOMAIN invoked}

Count(l) == Cardinality({i \in DOMAIN invoked : Label(invoked[i]) = l})

\* The source-file checks have all been made and all three files were found
ChecksPassed ==
    /\ Len(reported) = 3
    /\ \A k \in DOMAIN reported : reported[k][2]

\* The encrypted-file checks have all been made and all three files were found
EncryptedAllFound ==
    /\ [k \in DOMAIN encChecked |-> encChecked[k][1]] = encrypted_files
    /\ \A k \in DOMAIN encChecked : encChecked[k][2]

-----------------------------------------------------------------------------
\* C1: in every run the commands invoked so far are a subsequence of the
\* fixed list (generate key, burn_key, FLASH_CRYPT_CNT, FLASH_CRYPT_CONFIG,
\* write protect, encrypt bootloader, partition table, firmware, write_flash):
\* each is an entry of the list, and they appear in the list's order, so
\* none twice.
C1_FixedOrder ==
    /\ \A i \in DOMAIN invoked : Position(Label(invoked[i])) # 0
    /\ \A i, j \in DOMAIN invoked :
          i < j => Position(Label(invoked[i])) < Position(Label(invoked[j]))

\* A run that invoked the whole list
C1_Witness ==
    /\ Len(invoked) = Len(FixedList)
    /\ [i \in DOMAIN invoked |-> Label(invoked[i])] = FixedList

C3_EncryptOnly ==
    args.encrypt_only =>
        \A i \in DOMAIN invoked :
            /\ ~Mentions(invoked[i], "--port")
            /\ Tool(invoked[i]) # "espefuse"
            /\ Tool(invoked[i]) # "esptool"
            /\ Label(invoked[i]) \notin EfuseLabels \cup {"write_flash"}

\* An --encrypt-only run that encrypted the three binaries and succeeded
C3_Witness ==
    /\ args.encrypt_only
    /\ EncryptLabels \subseteq Labels
    /\ pc = "L295"

\* C4: with --skip-efuse no espefuse command is invoked, and encryption and
\* flashing are still decided by --flash-only and --encrypt-only alone; with
\* none of --skip-efuse, --encrypt-only, --flash-only, once the pre-checks
\* have passed and the eFuse stage is over, burn_key, burn_efuse
\* FLASH_CRYPT_CNT and burn_efuse FLASH_CRYPT_CONFIG were each invoked
\* exactly once.
PastEfuseStage ==
    pc \in {"L219", "L234", "L242", "L261", "L271", "L291", "L295", "L319", "done"}

C4_SkipEfuse ==
    /\ args.skip_efuse =>
          /\ \A i \in DOMAIN invoked :
                /\ Tool(invoked[i]) # "espefuse"
                /\ Label(invoked[i]) \notin EfuseLabels
          /\ (Labels \cap EncryptLabels # {}) => ~args.flash_only
          /\ ("write_flash" \in Labels) => ~args.encrypt_only
          /\ pc = "L295" /\ ~args.flash_only => EncryptLabels \subseteq Labels
          /\ pc = "L295" /\ ~args.encrypt_only => "write_flash" \in Labels
    /\ (~args.skip_efuse /\ ~args.encrypt_only /\ ~args.flash_only
          /\ ChecksPassed /\ PastEfuseStage) =>
          /\ Count("burn_key") = 1
          /\ Count("burn_efuse FLASH_CRYPT_CNT") = 1
          /\ Count("burn_efuse FLASH_CRYPT_CONFIG") = 1

\* A --skip-efuse run that encrypted and flashed
C4_Witness ==
    /\ args.skip_efuse /\ ~args.flash_only /\ ~args.encrypt_only
    /\ EncryptLabels \cup {"write_flash"} \subseteq Labels
    /\ pc = "L295"

\* C5: burn_efuse FLASH_CRYPT_CNT is always given "1" with --development and
\* "127" without, and write_protect_efuse DIS_CACHE is never invoked in a
\* --development run.
C5_Development ==
    \A i \in DOMAIN invoked :
        /\ Label(invoked[i]) = "burn_efuse FLASH_CRYPT_CNT" =>
              invoked[i][Len(invoked[i])] = (IF args.development THEN "1" ELSE "127")
        /\ Label(invoked[i]) = "write_protect_efuse DIS_CACHE" => ~args.development

\* A --development run that burned FLASH_CRYPT_CNT and went past the
\* write-protect step
C5_Witness ==
    /\ args.development
    /\ "burn_efuse FLASH_CRYPT_CNT" \in Labels
    /\ pc = "L234"

\* C6: a missing build directory ends the run with exit code 1 before any
\* command, whatever the flags; without --flash-only a missing source file
\* ends the run with exit code 1 after all three files were checked, and
\* nothing but generate_flash_encryption_key can have been invoked by then.
C6_PreChecks ==
    /\ (build_dir \notin fs /\ pc # "L127") =>
          pc = "done" /\ exitCode = 1 /\ invoked = <<>>
    /\ pc \in {"L155", "L156", "L157", "L158", "L160"} =>
          Labels \subseteq {"generate_flash_encryption_key"}
    /\ (reported # <<>> /\ pc \notin {"L157", "L158"}) =>
          [k \in DOMAIN reported |-> reported[k][1]] =
             <<bootloader_bin, partitions_bin, firmware_bin>>
    /\ (~args.flash_only /\ \E k \in DOMAIN reported : ~reported[k][2]) =>
          /\ Labels \subseteq {"generate_flash_encryption_key"}
          /\ pc \notin {"L157", "L158", "L160"} => pc = "done" /\ exitCode = 1

\* A run that generated the key, found the first source file missing,
\* checked the other two all the same and exited
C6_Witness ==
    /\ ~args.flash_only
    /\ Len(reported) = 3 /\ ~reported[1][2]
    /\ Labels = {"generate_flash_encryption_key"}
    /\ pc = "done" /\ exitCode = 1

====
